---------------------------- MODULE Spec2Model ----------------------------
(***************************************************************************)
(* Model of the Blockchain class of src/src/index.ts: a persistent block   *)
(* store that keeps a canonical chain by highest total difficulty.         *)
(*                                                                         *)
(* The program is callback-driven JavaScript: every callback runs to       *)
(* completion, and callbacks of different calls interleave at every        *)
(* asynchronous read or write.  One action of the model is one callback;   *)
(* a lookup that chains two reads of the store (hash to number, then the   *)
(* value) with no code of the class in between is answered in one action.  *)
(* The key-value store, the write caches (DBManager), the semaphore and    *)
(* the readiness latch are not part of src/; they are modelled from their  *)
(* interface as the specification describes it.                            *)
(***************************************************************************)
EXTENDS Integers, Sequences, FiniteSets, TLC

(***************************************************************************)
(* The blocks the environment can submit: a fixed tree below genesis G.    *)
(*                                                                         *)
(*     G --- A1 --- A2 --- A3 --- A4     main chain                        *)
(*     |      `---- C2                   fork above A1                     *)
(*     |`--- B1 --- B2 --- B3            fork directly above genesis       *)
(*      `--- X, V, W                     blocks that verification rejects  *)
(***************************************************************************)
Null == "null"
ZeroHash == "0x00"
NotFound == "NotFound"
Hashes == {"G", "A1", "A2", "A3", "A4", "B1", "B2", "B3", "C2", "X", "V", "W"}
GenesisHash == "G"

Parent ==
  [G |-> ZeroHash, A1 |-> "G", A2 |-> "A1", A3 |-> "A2", A4 |-> "A3",
   B1 |-> "G", B2 |-> "B1", B3 |-> "B2", C2 |-> "A1", X |-> "G", V |-> "G", W |-> "G"]

Number ==
  [G |-> 0, A1 |-> 1, A2 |-> 2, A3 |-> 3, A4 |-> 4, B1 |-> 1, B2 |-> 2, B3 |-> 3,
   C2 |-> 2, X |-> 1, V |-> 1, W |-> 1]

\* header.difficulty; the totals are G 1, A1 6, A2 7, A3 8, A4 9, C2 8, B1 3, B2 5, B3 10
Difficulty ==
  [G |-> 1, A1 |-> 5, A2 |-> 1, A3 |-> 1, A4 |-> 1, B1 |-> 2, B2 |-> 2, B3 |-> 5,
   C2 |-> 2, X |-> 1, V |-> 1, W |-> 1]

\* block.transactions.length || block.uncleHeaders.length
HasTx ==
  [G |-> FALSE, A1 |-> TRUE, A2 |-> TRUE, A3 |-> TRUE, A4 |-> TRUE, B1 |-> FALSE,
   B2 |-> TRUE, B3 |-> TRUE, C2 |-> TRUE, X |-> TRUE, V |-> TRUE, W |-> TRUE]

\* block._common.chainId() === self._common.chainId()
SameChain == [h \in Hashes |-> h # "X"]

\* outcome of the external block.validate(blockchain, cb)
ValidStruct == [h \in Hashes |-> h # "V"]

\* outcome of the external ethash.verifyPOW(block, cb)
PowOk == [h \in Hashes |-> h # "W"]

IterNames == {"vm"}

\* an argument that is neither a Block, a Header nor a Buffer: it has no hash()
Malformed == "M"

(***************************************************************************)
(* Finite maps: a key that is absent is outside the DOMAIN.                *)
(***************************************************************************)
EmptyMap == [x \in {} |-> 0]
MapPut(f, k, v) == [x \in (DOMAIN f) \cup {k} |-> IF x = k THEN v ELSE f[x]]
MapDel(f, k) == [x \in (DOMAIN f) \ {k} |-> f[x]]

(***************************************************************************)
(* The key-value store and DBManager's write caches.  A key is a family    *)
(* and an identifier; header, body and td keys are built from number and   *)
(* hash, and the number is always the block's own, so the hash names them. *)
(***************************************************************************)
CacheFamilies == {"td", "header", "body", "n2h", "h2n"}

EmptyStore ==
  [td |-> EmptyMap, header |-> EmptyMap, body |-> EmptyMap, n2h |-> EmptyMap,
   h2n |-> EmptyMap, meta |-> EmptyMap]

EmptyCache ==
  [td |-> EmptyMap, header |-> EmptyMap, body |-> EmptyMap, n2h |-> EmptyMap,
   h2n |-> EmptyMap]

PutOp(fam, k, v) == [type |-> "put", fam |-> fam, key |-> k, value |-> v]
DelOp(fam, k) == [type |-> "del", fam |-> fam, key |-> k, value |-> Null]

ApplyOp(d, op) ==
  IF op.type = "put"
  THEN [d EXCEPT ![op.fam] = MapPut(@, op.key, op.value)]
  ELSE [d EXCEPT ![op.fam] = MapDel(@, op.key)]

RECURSIVE ApplyOps(_, _)
ApplyOps(d, ops) ==
  IF ops = <<>> THEN d ELSE ApplyOps(ApplyOp(d, Head(ops)), Tail(ops))

\* dbManager.get with a cache: the cache answers first, then the store
DbHas(d, c, fam, k) == k \in DOMAIN c[fam] \/ k \in DOMAIN d[fam]
DbGet(d, c, fam, k) ==
  IF k \in DOMAIN c[fam] THEN c[fam][k]
  ELSE IF k \in DOMAIN d[fam] THEN d[fam][k] ELSE NotFound

CacheSet(c, fam, k, v) == [c EXCEPT ![fam] = MapPut(@, k, v)]
CacheDel(c, fam, k) == [c EXCEPT ![fam] = MapDel(@, k)]

(***************************************************************************)
(* The in-memory fields of a Blockchain object.                            *)
(*   staleHeads = {} models an undefined (or empty) _staleHeads.           *)
(***************************************************************************)
NewMem ==
  [heads |-> EmptyMap, genesis |-> Null, headHeader |-> Null, headBlock |-> Null,
   staleHeads |-> {}, staleHeadBlock |-> FALSE]

\* What a pipeline step works on: the caches, the fields, and its own dbOps.
Work(c, m, ops) == [cache |-> c, mem |-> m, ops |-> ops]

PushPut(w, fam, k, v) ==
  [w EXCEPT !.ops = Append(@, PutOp(fam, k, v)), !.cache = CacheSet(@, fam, k, v)]

PushDel(w, fam, k) ==
  [w EXCEPT !.ops = Append(@, DelOp(fam, k)), !.cache = CacheDel(@, fam, k)]

\* every iterator head that designates `stale` is moved to `to`
RetargetHeads(heads, stale, to) ==
  [n \in DOMAIN heads |-> IF heads[n] = stale THEN to ELSE heads[n]]

SaveHeadOps(m) ==
  << PutOp("meta", "heads", m.heads),
     PutOp("meta", "LastHeader", m.headHeader),
     PutOp("meta", "LastBlock", m.headBlock) >>

(***************************************************************************)
(* _putBlockOrHeader, the synchronous pieces between two reads.            *)
(***************************************************************************)
\* the chain check, verify and verifyPOW: "ok" or the error of the first that fails
VerifyResult(hash, isGenesis, validate) ==
  IF ~SameChain[hash] THEN "ChainMismatch"
  ELSE IF ~validate THEN "ok"
  ELSE IF ~isGenesis /\ Number[hash] = 0 THEN "AlreadyHaveGenesis"
  ELSE IF ~ValidStruct[hash] THEN "InvalidBlock"
  ELSE IF ~PowOk[hash] THEN "InvalidPoW"
  ELSE "ok"

\* _getTd(hash, cb) without a number: hashToNumber first, then the td key
HasTdByHash(d, c, hash) == DbHas(d, c, "h2n", hash) /\ DbHas(d, c, "td", hash)
GetTdByHash(d, c, hash) == DbGet(d, c, "td", hash)

\* variant: every put is taken for the heaviest
WinsAlways(hash, td, curHeaderTd) == TRUE

\* variant: an item as heavy as the head wins too
WinsOnTie(hash, td, curHeaderTd) == Number[hash] = 0 \/ td >= curHeaderTd

Wins(hash, td, curHeaderTd) == Number[hash] = 0 \/ td > curHeaderTd

SaveLookups(w, hash) ==
  PushPut(PushPut(w, "n2h", Number[hash], hash), "h2n", hash, Number[hash])

\* rebuildInfo up to the point where it either starts the two walks or calls next()
RebuildInfo(w, hash, isHeader, isGenesis, td, curHeaderTd, curBlockTd) ==
  LET w1 == PushPut(w, "td", hash, td)
      w2 == PushPut(w1, "header", hash, hash)
      w3 == IF isGenesis \/ (~isHeader /\ HasTx[hash])
            THEN PushPut(w2, "body", hash, hash) ELSE w2
  IN IF Wins(hash, td, curHeaderTd)
     THEN [w3 EXCEPT !.mem.headHeader = hash,
                     !.mem.headBlock = IF isHeader THEN @ ELSE hash,
                     !.mem.genesis = IF Number[hash] = 0 THEN hash ELSE @]
     ELSE PushPut([w3 EXCEPT !.mem.headBlock =
                       IF td > curBlockTd /\ ~isHeader THEN hash ELSE @],
                  "h2n", hash, Number[hash])

\* one callback of _deleteStaleAssignments(number, headHash, ops, cb)
DeleteStaleFound(d, w, number) == DbHas(d, w.cache, "n2h", number)

DeleteStaleStep(d, w, number, headHash) ==
  LET hash == DbGet(d, w.cache, "n2h", number)
      w1 == PushDel(w, "n2h", number)
  IN [w1 EXCEPT !.mem.heads = RetargetHeads(@, hash, headHash),
                !.mem.headBlock = IF @ = hash THEN headHash ELSE @]

\* variant: a number that is assigned already is taken for canonical
RebuildContinuesOnGap(d, w, hash) == ~DbHas(d, w.cache, "n2h", Number[hash])

\* the callback of _numberToHash in _rebuildCanonical(header): TRUE when the
\* walk goes on to the parent
RebuildContinues(d, w, hash) ==
  ~DbHas(d, w.cache, "n2h", Number[hash]) \/ DbGet(d, w.cache, "n2h", Number[hash]) # hash

\* variant: where the walk stops the flags are dropped and no head is moved
RebuildLookDropsStale(d, w, hash) ==
  LET found == DbHas(d, w.cache, "n2h", Number[hash])
      staleHash == DbGet(d, w.cache, "n2h", Number[hash])
  IN IF RebuildContinues(d, w, hash)
     THEN LET w1 == SaveLookups(w, hash)
              flagged == {n \in DOMAIN w.mem.heads : found /\ w.mem.heads[n] = staleHash}
          IN [w1 EXCEPT !.mem.staleHeads = @ \cup flagged,
                        !.mem.staleHeadBlock = @ \/ (found /\ w.mem.headBlock = staleHash)]
     ELSE [w EXCEPT !.mem.staleHeads = {}, !.mem.staleHeadBlock = FALSE]

RebuildLook(d, w, hash) ==
  LET found == DbHas(d, w.cache, "n2h", Number[hash])
      staleHash == DbGet(d, w.cache, "n2h", Number[hash])
  IN IF RebuildContinues(d, w, hash)
     THEN LET w1 == SaveLookups(w, hash)
              flagged == {n \in DOMAIN w.mem.heads : found /\ w.mem.heads[n] = staleHash}
          IN [w1 EXCEPT !.mem.staleHeads = @ \cup flagged,
                        !.mem.staleHeadBlock = @ \/ (found /\ w.mem.headBlock = staleHash)]
     ELSE [w EXCEPT !.mem.heads =
                      [n \in (DOMAIN @) \cup w.mem.staleHeads |->
                         IF n \in w.mem.staleHeads THEN hash ELSE @[n]],
                    !.mem.staleHeads = {},
                    !.mem.headBlock = IF w.mem.staleHeadBlock THEN hash ELSE @,
                    !.mem.staleHeadBlock = FALSE]

\* _rebuildCanonical(header) for the genesis header: the lookups, and no walk
RebuildGenesis(w, hash) == SaveLookups(w, hash)

\* the error branch of the parent read in _rebuildCanonical
RebuildBroken(w) == [w EXCEPT !.mem.staleHeads = {}]

(***************************************************************************)
(* _delChild(hash, number, headHash, ops, cb) up to its read of the child. *)
(***************************************************************************)
\* variant: the number of the deleted block is unassigned as well
DelChildUnassigns(w, hash, headHash) ==
  PushDel(PushDel(PushDel(PushDel(PushDel(w, "header", hash), "body", hash),
                          "h2n", hash), "td", hash), "n2h", Number[hash])

DelChild(w, hash, headHash) ==
  LET w1 == PushDel(PushDel(PushDel(PushDel(w, "header", hash), "body", hash),
                            "h2n", hash), "td", hash)
  IN IF headHash = Null THEN w1
     ELSE [w1 EXCEPT !.mem.headHeader = IF @ = hash THEN headHash ELSE @,
                     !.mem.headBlock = IF @ = hash THEN headHash ELSE @]

\* variant: no canonical child is ever found
NoCanonicalHeader(d, c, number) == NotFound

\* _getCanonicalHeader(number, cb): the canonical hash, when its header is stored
CanonicalHeader(d, c, number) ==
  IF DbHas(d, c, "n2h", number) /\ DbHas(d, c, "header", DbGet(d, c, "n2h", number))
  THEN DbGet(d, c, "n2h", number) ELSE NotFound

\* dbManager.getBlock(number): the canonical hash, its header, its body
GetBlockByNumber(d, c, number) ==
  IF ~DbHas(d, c, "n2h", number) THEN NotFound
  ELSE LET hash == DbGet(d, c, "n2h", number)
       IN IF ~DbHas(d, c, "header", hash) THEN NotFound
          ELSE IF ~DbHas(d, c, "body", hash) /\ Number[hash] # 0 THEN "BodyMissing"
          ELSE hash

\* _getHeader(hash, cb) without a number
GetHeaderByHash(d, c, hash) ==
  IF DbHas(d, c, "h2n", hash) /\ DbHas(d, c, "header", hash) THEN hash ELSE NotFound

(***************************************************************************)
(* A pipeline run from its first step to its callback with nothing else    *)
(* running in between: every read answers before the next one is issued.   *)
(* A state is [db, cache, mem, err], err the error given to the callback.  *)
(***************************************************************************)
RECURSIVE DeleteStaleAssignments(_, _, _, _)
DeleteStaleAssignments(d, w, number, headHash) ==
  IF DeleteStaleFound(d, w, number)
  THEN DeleteStaleAssignments(d, DeleteStaleStep(d, w, number, headHash), number + 1, headHash)
  ELSE w

RECURSIVE RebuildCanonical(_, _, _)
RebuildCanonical(d, w, hash) ==
  IF Number[hash] = 0 THEN [w |-> RebuildGenesis(w, hash), err |-> "ok"]
  ELSE IF ~RebuildContinues(d, w, hash) THEN [w |-> RebuildLook(d, w, hash), err |-> "ok"]
  ELSE LET w1 == RebuildLook(d, w, hash)
       IN IF ~DbHas(d, w1.cache, "header", Parent[hash])
          THEN [w |-> RebuildBroken(w1), err |-> "BrokenChain"]
          ELSE RebuildCanonical(d, w1, Parent[hash])

PutBlockOrHeader(s, hash, isHeader, isGenesis, val) ==
  LET v == VerifyResult(hash, isGenesis, val)
      hasCur == /\ HasTdByHash(s.db, s.cache, s.mem.headHeader)
                /\ HasTdByHash(s.db, s.cache, s.mem.headBlock)
      curH == IF isGenesis THEN 0 ELSE GetTdByHash(s.db, s.cache, s.mem.headHeader)
      curB == IF isGenesis THEN 0 ELSE GetTdByHash(s.db, s.cache, s.mem.headBlock)
      td == IF isGenesis THEN Difficulty[hash]
            ELSE Difficulty[hash] + DbGet(s.db, s.cache, "td", Parent[hash])
      w == RebuildInfo(Work(s.cache, s.mem, <<>>), hash, isHeader, isGenesis, td, curH, curB)
      r == IF Wins(hash, td, curH)
           THEN RebuildCanonical(s.db, DeleteStaleAssignments(s.db, w, Number[hash] + 1, hash),
                                 hash)
           ELSE [w |-> w, err |-> "ok"]
  IN IF v # "ok" THEN [s EXCEPT !.err = v]
     ELSE IF ~isGenesis /\ ~hasCur THEN [s EXCEPT !.err = NotFound]
     ELSE IF ~isGenesis /\ ~DbHas(s.db, s.cache, "td", Parent[hash])
     THEN [s EXCEPT !.err = "ParentMissing"]
     ELSE [db |-> IF r.err = "ok" THEN ApplyOps(s.db, r.w.ops \o SaveHeadOps(r.w.mem)) ELSE s.db,
           cache |-> r.w.cache, mem |-> r.w.mem, err |-> r.err]

\* new Blockchain({db: store}) run until _initLock.go()
Opened(store, val) ==
  IF 0 \in DOMAIN store.n2h
  THEN LET g == store.n2h[0]
           meta == store.meta
       IN [db |-> store, cache |-> EmptyCache, err |-> "ok",
           mem |-> [NewMem EXCEPT
                      !.genesis = g,
                      !.heads = IF "heads" \in DOMAIN meta THEN meta["heads"] ELSE EmptyMap,
                      !.headHeader = IF "LastHeader" \in DOMAIN meta THEN meta["LastHeader"] ELSE g,
                      !.headBlock = IF "LastBlock" \in DOMAIN meta THEN meta["LastBlock"] ELSE g]]
  ELSE LET s == PutBlockOrHeader([db |-> store, cache |-> EmptyCache, mem |-> NewMem,
                                  err |-> "ok"], GenesisHash, FALSE, TRUE, val)
       IN [s EXCEPT !.mem.heads = EmptyMap, !.mem.headHeader = s.mem.genesis,
                    !.mem.headBlock = s.mem.genesis]

\* putBlocks(blocks, cb) on a state, one putBlock after the other
RECURSIVE PutBlocks(_, _, _)
PutBlocks(s, blocks, val) ==
  IF blocks = <<>> THEN s
  ELSE PutBlocks(PutBlockOrHeader(s, Head(blocks), FALSE, FALSE, val), Tail(blocks), val)

\* A store left behind by an earlier process: the main chain up to A4 is
\* canonical, B1 and B2 are stored beside it.
StoreFork ==
  PutBlocks(Opened(EmptyStore, FALSE), <<"A1", "A2", "A3", "A4", "B1", "B2">>, FALSE).db

\* A store left behind by an earlier process: A1 and A2 are canonical and nothing
\* else is stored.
StoreShort == PutBlocks(Opened(EmptyStore, FALSE), <<"A1", "A2">>, FALSE).db

InitStores == {EmptyStore, StoreFork, StoreShort}

(***************************************************************************)
(* State.                                                                  *)
(***************************************************************************)
VARIABLES
  db,        \* the key-value store
  cache,     \* dbManager._cache
  mem,       \* _heads, _genesis, _headHeader, _headBlock, _staleHeads, _staleHeadBlock
  validate,  \* this.validate, a constructor option
  gate,      \* _initLock: "stop" until go() is called
  sem,       \* _putSemaphore: holder (0 when free) and the FIFO queue of waiting calls
  calls,     \* per caller: the call in flight, its position and its locals
  orphans,   \* reads still pending for a pipeline whose callback has already run
  out,       \* per caller: what the last completed call passed to its callback
  hist,      \* per caller: the shared state when the call in flight was issued, its
             \* argument, and what the caller's earlier iterator runs have consumed
  nwrites    \* number of pipelines that have started to write

vars == <<db, cache, mem, validate, gate, sem, calls, orphans, out, hist, nwrites>>

NumCallers == 2
MaxWrites == 3

InitProc == 0
Callers == 1..NumCallers
Procs == {InitProc} \cup Callers

Mutators == {"putBlock", "putHeader", "delBlock"}

IdleCall ==
  [pc |-> "idle", op |-> "none", hash |-> Null, isHeader |-> FALSE, isGenesis |-> FALSE,
   pend |-> {}, hH |-> Null, hB |-> Null, curH |-> 0, curB |-> 0, td |-> 0,
   ops |-> <<>>, ds |-> -1, dsHead |-> Null, rc |-> Null, rcPhase |-> "off",
   inCanonical |-> FALSE, childNumber |-> -1,
   name |-> Null, blockNumber |-> -1, lastBlock |-> Null, block |-> Null,
   hashes |-> <<>>, min |-> 0, mid |-> 0, max |-> 0, result |-> <<>>]

NoOut == [op |-> "none", hash |-> Null, name |-> Null, err |-> "none", result |-> <<>>]
Snapshot == [db |-> db, cache |-> cache, mem |-> mem, gate |-> gate]
NoHist ==
  [pre |-> [db |-> EmptyStore, cache |-> EmptyCache, mem |-> NewMem, gate |-> "stop"],
   again |-> "none", w |-> 0, seen |-> [n \in IterNames |-> {}], hashes |-> <<>>]

\* the blocks that caller c's iterator runs have handed to onBlock, per name, in
\* runs that went on to the end of the chain; the last call of c is counted in
Seen(c) ==
  [n \in IterNames |->
     hist[c].seen[n] \cup
       IF out[c].op = "iterator" /\ out[c].name = n /\ out[c].err = "ok"
       THEN {out[c].result[i].block : i \in 1..Len(out[c].result)} ELSE {}]

\* the constructor: fields set, _init started, its read of numberToHash(0) pending
InitOn(store) ==
  /\ db = store
  /\ cache = EmptyCache
  /\ mem = NewMem
  /\ validate \in BOOLEAN
  /\ gate = "stop"
  /\ sem = [holder |-> 0, queue |-> <<>>]
  /\ calls = [c \in Procs |->
                IF c = InitProc
                THEN [IdleCall EXCEPT !.pc = "initRead", !.op = "putBlock",
                                      !.hash = GenesisHash, !.isGenesis = TRUE]
                ELSE IdleCall]
  /\ orphans = {}
  /\ out = [c \in Callers |-> NoOut]
  /\ hist = [c \in Callers |-> NoHist]
  /\ nwrites = 0

Init == \E store \in InitStores : InitOn(store)

(***************************************************************************)
(* How a step ends: the call goes on waiting, or its callback runs.        *)
(***************************************************************************)
Continue(c, cl, m) ==
  /\ calls' = [calls EXCEPT ![c] = cl]
  /\ mem' = m
  /\ UNCHANGED <<gate, sem, orphans, out>>

\* semaphore.leave(): the token goes to the oldest waiting call, if any
Leave(s) ==
  IF s.queue = <<>> THEN [s EXCEPT !.holder = 0]
  ELSE [holder |-> Head(s.queue), queue |-> Tail(s.queue)]

\* the final callback of a pipeline of caller c, with what it still has in flight
Finish(c, err, res, m, left) ==
  IF c = InitProc
  THEN \* the callback given to _init by the constructor
       /\ calls' = [calls EXCEPT ![c] = [IdleCall EXCEPT !.pc = IF err = "ok" THEN "done" ELSE "threw"]]
       /\ mem' = IF err = "ok" /\ calls[c].pc # "initLoad"
                 THEN [m EXCEPT !.heads = EmptyMap, !.headHeader = m.genesis,
                                !.headBlock = m.genesis]
                 ELSE m
       /\ gate' = IF err = "ok" THEN "go" ELSE gate
       /\ orphans' = orphans \cup left
       /\ UNCHANGED <<sem, out>>
  ELSE /\ mem' = m
       /\ out' = [out EXCEPT ![c] = [op |-> calls[c].op, hash |-> calls[c].hash,
                                     name |-> calls[c].name, err |-> err, result |-> res]]
       /\ orphans' = orphans \cup left
       /\ IF calls[c].op \in Mutators
          THEN \* after(): _putSemaphore.leave(), then cb
               /\ sem' = Leave(sem)
               /\ calls' = [x \in Procs |->
                              IF x = c THEN IdleCall
                              ELSE IF sem.queue # <<>> /\ x = Head(sem.queue)
                                   THEN [calls[x] EXCEPT !.pc = "start"]
                                   ELSE calls[x]]
          ELSE /\ calls' = [calls EXCEPT ![c] = IdleCall]
               /\ sem' = sem
       /\ UNCHANGED gate

\* variant: the item's td is cached before the error is handed on
RejectDirty(c, err) ==
  /\ Finish(c, err, <<>>, mem, {})
  /\ cache' = CacheSet(cache, "td", calls[c].hash, Difficulty[calls[c].hash])
  /\ UNCHANGED nwrites

\* async.series hands the error of a step before rebuildInfo to the callback
Reject(c, err) ==
  Finish(c, err, <<>>, mem, {}) /\ UNCHANGED <<cache, nwrites>>

(***************************************************************************)
(* The public API: a call is issued and waits for the gate.                *)
(***************************************************************************)
\* hist.again: how the caller's previous call ended, when it was this same call;
\* hist.w: how many pipelines had started to write when the call was issued
Issue(c, cl) ==
  /\ calls[c].pc = "idle"
  /\ nwrites < MaxWrites
  /\ calls' = [calls EXCEPT ![c] = cl]
  /\ hist' = [hist EXCEPT ![c] =
                [pre |-> Snapshot,
                 again |-> IF out[c].op = cl.op /\ out[c].hash = cl.hash
                           THEN out[c].err ELSE "none",
                 w |-> nwrites,
                 seen |-> Seen(c),
                 hashes |-> <<>>]]
  /\ out' = [out EXCEPT ![c] = NoOut]
  /\ UNCHANGED <<db, cache, mem, validate, gate, sem, orphans, nwrites>>

putBlock(c, hash) ==
  Issue(c, [IdleCall EXCEPT !.pc = "gate", !.op = "putBlock", !.hash = hash])

putHeader(c, hash) ==
  Issue(c, [IdleCall EXCEPT !.pc = "gate", !.op = "putHeader", !.hash = hash,
                            !.isHeader = TRUE])

delBlock(c, hash) ==
  Issue(c, [IdleCall EXCEPT !.pc = "gate", !.op = "delBlock", !.hash = hash])

\* variant: _lockUnlock runs the pipeline without taking the semaphore
EnterUnlocked(c) ==
  /\ calls[c].pc = "gate"
  /\ calls[c].op \in Mutators
  /\ gate = "go"
  /\ calls' = [calls EXCEPT ![c].pc = "start"]
  /\ UNCHANGED <<db, cache, mem, validate, gate, sem, orphans, out, hist, nwrites>>

\* _initLock.await(...) fires, and _lockUnlock takes the semaphore or queues
Enter(c) ==
  /\ calls[c].pc = "gate"
  /\ calls[c].op \in Mutators
  /\ gate = "go"
  /\ IF sem.holder = 0
     THEN /\ sem' = [sem EXCEPT !.holder = c]
          /\ calls' = [calls EXCEPT ![c].pc = "start"]
     ELSE /\ sem' = [sem EXCEPT !.queue = Append(@, c)]
          /\ calls' = [calls EXCEPT ![c].pc = "queued"]
  /\ UNCHANGED <<db, cache, mem, validate, gate, orphans, out, hist, nwrites>>

\* the pipeline function throws in its synchronous part, block.hash() of
\* _putBlockOrHeader or blockHash.hash() of _delBlock: after() is never called,
\* and neither is the callback; the exception ends the call
Throw(c) ==
  /\ calls[c].pc = "start"
  /\ calls[c].op \in Mutators
  /\ calls[c].hash = Malformed
  /\ calls' = [calls EXCEPT ![c] = IdleCall]
  /\ out' = [out EXCEPT ![c] = [op |-> calls[c].op, hash |-> calls[c].hash,
                                name |-> Null, err |-> "Thrown", result |-> <<>>]]
  /\ UNCHANGED <<db, cache, mem, validate, gate, sem, orphans, hist, nwrites>>

(***************************************************************************)
(* _putBlockOrHeader                                                       *)
(***************************************************************************)
\* rebuildInfo and what it starts; cl holds td and the current tds
StartRebuild(c, cl) ==
  LET hash == cl.hash
      w == RebuildInfo(Work(cache, mem, cl.ops), hash, cl.isHeader, cl.isGenesis,
                       cl.td, cl.curH, cl.curB)
  IN /\ nwrites' = IF c = InitProc THEN nwrites ELSE nwrites + 1
     /\ IF Wins(hash, cl.td, cl.curH)
        THEN \* async.parallel: _deleteStaleAssignments(number + 1) and _rebuildCanonical
             LET w2 == IF Number[hash] = 0 THEN RebuildGenesis(w, hash) ELSE w
             IN /\ cache' = w2.cache
                /\ Continue(c, [cl EXCEPT !.pc = "walk", !.ops = w2.ops,
                                          !.ds = Number[hash] + 1, !.dsHead = hash,
                                          !.rc = IF Number[hash] = 0 THEN Null ELSE hash,
                                          !.rcPhase = IF Number[hash] = 0 THEN "off" ELSE "look"],
                            w2.mem)
        ELSE \* next(): the batch is issued with the head ops as they are now
             /\ cache' = w.cache
             /\ Continue(c, [cl EXCEPT !.pc = "commit",
                                       !.ops = w.ops \o SaveHeadOps(w.mem)], w.mem)

\* the callbacks of verify and verifyPOW, then getCurrentTd starts its two reads
PutStart(c) ==
  /\ calls[c].pc = "start"
  /\ calls[c].op \in {"putBlock", "putHeader"}
  /\ calls[c].hash # Malformed
  /\ LET cl == calls[c]
         v == VerifyResult(cl.hash, cl.isGenesis, validate)
     IN IF v # "ok"
        THEN Reject(c, v)
        ELSE IF cl.isGenesis
        THEN \* getCurrentTd and getBlockTd read nothing for a genesis put
             StartRebuild(c, [cl EXCEPT !.td = Difficulty[cl.hash], !.curH = 0, !.curB = 0])
        ELSE Continue(c, [cl EXCEPT !.pc = "curTd", !.pend = {"header", "block"},
                                    !.hH = mem.headHeader, !.hB = mem.headBlock], mem)
             /\ UNCHANGED <<cache, nwrites>>
  /\ UNCHANGED <<db, validate, hist>>

\* the callback of one of the two _getTd reads of getCurrentTd
TdRead(c, which) ==
  /\ calls[c].pc = "curTd"
  /\ which \in calls[c].pend
  /\ LET cl == calls[c]
         head == IF which = "header" THEN cl.hH ELSE cl.hB
         r == GetTdByHash(db, cache, head)
         rest == cl.pend \ {which}
         cl1 == IF which = "header" THEN [cl EXCEPT !.curH = r, !.pend = rest]
                ELSE [cl EXCEPT !.curB = r, !.pend = rest]
     IN IF ~HasTdByHash(db, cache, head)
        THEN Finish(c, "NotFound", <<>>, mem,
                    {[kind |-> "td", owner |-> c, n |-> 0, headHash |-> Null] : x \in rest})
        ELSE IF rest # {}
        THEN Continue(c, cl1, mem)
        ELSE \* getBlockTd starts its read of the parent's td
             Continue(c, [cl1 EXCEPT !.pc = "blockTd"], mem)
  /\ UNCHANGED <<db, cache, validate, hist, nwrites>>

\* the callback of getBlockTd's read, then rebuildInfo
BlockTd(c) ==
  /\ calls[c].pc = "blockTd"
  /\ LET cl == calls[c]
         parent == Parent[cl.hash]
     IN IF ~DbHas(db, cache, "td", parent)
        THEN Reject(c, "ParentMissing")
        ELSE StartRebuild(c, [cl EXCEPT !.td = Difficulty[cl.hash] + DbGet(db, cache, "td", parent)])
  /\ UNCHANGED <<db, validate, hist>>

\* async.parallel's callback of rebuildInfo once both walks are over: the batch
\* is issued with the head ops as they are now
WalksDone(c, cl, w) ==
  Continue(c, [cl EXCEPT !.pc = "commit", !.ops = w.ops \o SaveHeadOps(w.mem)], w.mem)

OrphanWalk(c, cl) ==
  IF cl.ds >= 0
  THEN {[kind |-> "ds", owner |-> c, n |-> cl.ds, headHash |-> cl.dsHead]}
  ELSE {}

\* a callback of _deleteStaleAssignments, in a put or in a delete
DeleteStale(c) ==
  /\ calls[c].pc \in {"walk", "delStale"}
  /\ calls[c].ds >= 0
  /\ LET cl == calls[c]
         w0 == Work(cache, mem, cl.ops)
     IN IF DeleteStaleFound(db, w0, cl.ds)
        THEN LET w == DeleteStaleStep(db, w0, cl.ds, cl.dsHead)
             IN /\ cache' = w.cache
                /\ Continue(c, [cl EXCEPT !.ops = w.ops, !.ds = cl.ds + 1], w.mem)
        ELSE /\ cache' = cache
             /\ IF cl.pc = "delStale"
                THEN Continue(c, [cl EXCEPT !.pc = "commit", !.ds = -1], mem)
                ELSE IF cl.rcPhase = "off"
                THEN WalksDone(c, [cl EXCEPT !.ds = -1], w0)
                ELSE Continue(c, [cl EXCEPT !.ds = -1], mem)
  /\ UNCHANGED <<db, validate, hist, nwrites>>

\* the callback of _numberToHash in _rebuildCanonical
RebuildCanonicalLook(c) ==
  /\ calls[c].pc = "walk"
  /\ calls[c].rcPhase = "look"
  /\ LET cl == calls[c]
         w0 == Work(cache, mem, cl.ops)
         w == RebuildLook(db, w0, cl.rc)
     IN /\ cache' = w.cache
        /\ IF RebuildContinues(db, w0, cl.rc)
           THEN Continue(c, [cl EXCEPT !.ops = w.ops, !.rcPhase = "parent"], w.mem)
           ELSE IF cl.ds < 0
           THEN WalksDone(c, [cl EXCEPT !.rc = Null, !.rcPhase = "off"], w)
           ELSE Continue(c, [cl EXCEPT !.ops = w.ops, !.rc = Null, !.rcPhase = "off"], w.mem)
  /\ UNCHANGED <<db, validate, hist, nwrites>>

\* the callback of _getHeader(header.parentHash, number - 1) in _rebuildCanonical
RebuildCanonicalParent(c) ==
  /\ calls[c].pc = "walk"
  /\ calls[c].rcPhase = "parent"
  /\ LET cl == calls[c]
         parent == Parent[cl.rc]
         w0 == Work(cache, mem, cl.ops)
     IN IF ~DbHas(db, cache, "header", parent)
        THEN /\ cache' = cache
             /\ Finish(c, "BrokenChain", <<>>, RebuildBroken(w0).mem, OrphanWalk(c, cl))
        ELSE IF Number[parent] = 0
        THEN LET w == RebuildGenesis(w0, parent)
             IN /\ cache' = w.cache
                /\ IF cl.ds < 0
                   THEN WalksDone(c, [cl EXCEPT !.rc = Null, !.rcPhase = "off"], w)
                   ELSE Continue(c, [cl EXCEPT !.ops = w.ops, !.rc = Null,
                                               !.rcPhase = "off"], w.mem)
        ELSE /\ cache' = cache
             /\ Continue(c, [cl EXCEPT !.rc = parent, !.rcPhase = "look"], mem)
  /\ UNCHANGED <<db, validate, hist, nwrites>>

\* the callback of _batchDbOps: the batch is in the store
Commit(c) ==
  /\ calls[c].pc = "commit"
  /\ db' = ApplyOps(db, calls[c].ops)
  /\ Finish(c, "ok", <<>>, mem, {})
  /\ UNCHANGED <<cache, validate, hist, nwrites>>

\* the callback of _batchDbOps with an error: nothing of the batch is in the store
CommitFail(c) ==
  /\ calls[c].pc \in {"commit", "itSave"}
  /\ Finish(c, "DbError", calls[c].result, mem, {})
  /\ UNCHANGED <<db, cache, validate, hist, nwrites>>

\* a read that outlived its pipeline calls back
OrphanRead(o) ==
  /\ o \in orphans
  /\ LET w0 == Work(cache, mem, <<>>)
     IN IF o.kind = "ds" /\ DeleteStaleFound(db, w0, o.n)
        THEN LET w == DeleteStaleStep(db, w0, o.n, o.headHash)
             IN /\ cache' = w.cache
                /\ mem' = w.mem
                /\ orphans' = (orphans \ {o}) \cup {[o EXCEPT !.n = o.n + 1]}
        ELSE /\ orphans' = orphans \ {o}
             /\ UNCHANGED <<cache, mem>>
  /\ UNCHANGED <<db, validate, gate, sem, calls, out, hist, nwrites>>

(***************************************************************************)
(* _delBlock                                                               *)
(***************************************************************************)
\* getHeader's callback, then checkCanonical starts its read
DelHeader(c) ==
  /\ calls[c].pc = "start"
  /\ calls[c].op = "delBlock"
  /\ calls[c].hash # Malformed
  /\ IF GetHeaderByHash(db, cache, calls[c].hash) = NotFound
     THEN Finish(c, "NotFound", <<>>, mem, {})
     ELSE Continue(c, [calls[c] EXCEPT !.pc = "delCanon"], mem)
  /\ UNCHANGED <<db, cache, validate, hist, nwrites>>

\* checkCanonical's callback, then buildDBops: _delChild for the block itself
DelCanonical(c) ==
  /\ calls[c].pc = "delCanon"
  /\ LET cl == calls[c]
         inCanonical == /\ DbHas(db, cache, "n2h", Number[cl.hash])
                        /\ DbGet(db, cache, "n2h", Number[cl.hash]) = cl.hash
         w == DelChild(Work(cache, mem, cl.ops), cl.hash,
                       IF inCanonical THEN Parent[cl.hash] ELSE Null)
     IN /\ cache' = w.cache
        /\ IF inCanonical
           THEN Continue(c, [cl EXCEPT !.pc = "delChild", !.ops = w.ops, !.inCanonical = TRUE,
                                       !.childNumber = Number[cl.hash] + 1], w.mem)
           ELSE Continue(c, [cl EXCEPT !.pc = "commit", !.ops = w.ops], w.mem)
  /\ nwrites' = nwrites + 1
  /\ UNCHANGED <<db, validate, hist>>

\* the callback of _getCanonicalHeader(number + 1) in _delChild
DelChildNext(c) ==
  /\ calls[c].pc = "delChild"
  /\ LET cl == calls[c]
         child == CanonicalHeader(db, cache, cl.childNumber)
     IN IF child = NotFound
        THEN \* deleteStaleAssignments(blockNumber, parentHash) starts its read
             /\ cache' = cache
             /\ Continue(c, [cl EXCEPT !.pc = "delStale", !.ds = Number[cl.hash],
                                       !.dsHead = Parent[cl.hash]], mem)
        ELSE LET w == DelChild(Work(cache, mem, cl.ops), child, Parent[cl.hash])
             IN /\ cache' = w.cache
                /\ Continue(c, [cl EXCEPT !.ops = w.ops, !.childNumber = Number[child] + 1],
                            w.mem)
  /\ UNCHANGED <<db, validate, hist, nwrites>>

(***************************************************************************)
(* iterator(name, onBlock, cb)                                             *)
(***************************************************************************)
iterator(c, name) ==
  Issue(c, [IdleCall EXCEPT !.pc = "gate", !.op = "iterator", !.name = name])

\* _initLock.await fires: _iterator picks its start hash and reads its number
IteratorStart(c) ==
  /\ calls[c].pc = "gate"
  /\ calls[c].op = "iterator"
  /\ gate = "go"
  /\ LET cl == calls[c]
         blockHash == IF cl.name \in DOMAIN mem.heads THEN mem.heads[cl.name] ELSE mem.genesis
     IN Continue(c, [cl EXCEPT !.pc = "itNumber", !.hash = blockHash], mem)
  /\ UNCHANGED <<db, cache, validate, hist, nwrites>>

\* the callback of _hashToNumber(blockHash), then the first getBlock
IteratorNumber(c) ==
  /\ calls[c].pc = "itNumber"
  /\ LET cl == calls[c]
     IN IF ~DbHas(db, cache, "h2n", cl.hash)
        THEN Finish(c, NotFound, <<>>, mem, {}) /\ UNCHANGED nwrites
        ELSE /\ Continue(c, [cl EXCEPT !.pc = "itBlock",
                                       !.blockNumber = DbGet(db, cache, "h2n", cl.hash) + 1], mem)
             /\ nwrites' = nwrites + 1
  /\ UNCHANGED <<db, cache, validate, hist>>

\* runFunc's reorg flag
ReorgFlag(lastBlock, block) ==
  IF lastBlock # Null THEN lastBlock = Parent[block] ELSE FALSE

\* the callback of getBlock(blockNumber), then runFunc hands the block to onBlock
IteratorBlock(c) ==
  /\ calls[c].pc = "itBlock"
  /\ LET cl == calls[c]
         b == GetBlockByNumber(db, cache, cl.blockNumber)
     IN IF b = NotFound
        THEN \* no more blocks: _saveHeads issues its batch
             Continue(c, [cl EXCEPT !.pc = "itSave", !.blockNumber = -1,
                                    !.ops = SaveHeadOps(mem)], mem)
        ELSE IF b = "BodyMissing"
        THEN Finish(c, b, cl.result, mem, {})
        ELSE Continue(c, [cl EXCEPT !.pc = "itUser", !.block = b, !.lastBlock = b,
                                    !.result = Append(@, [block |-> b,
                                                         reorg |-> ReorgFlag(cl.lastBlock, b)])],
                      [mem EXCEPT !.heads = MapPut(@, cl.name, b)])
  /\ UNCHANGED <<db, cache, validate, hist, nwrites>>

\* onBlock calls back, with or without an error
IteratorUser(c, ok) ==
  /\ calls[c].pc = "itUser"
  /\ LET cl == calls[c]
     IN IF ok
        THEN Continue(c, [cl EXCEPT !.pc = "itBlock", !.blockNumber = @ + 1], mem)
        ELSE Finish(c, "UserError", cl.result, mem, {})
  /\ UNCHANGED <<db, cache, validate, hist, nwrites>>

\* the callback of _saveHeads
IteratorSave(c) ==
  /\ calls[c].pc = "itSave"
  /\ db' = ApplyOps(db, calls[c].ops)
  /\ Finish(c, "ok", calls[c].result, mem, {})
  /\ UNCHANGED <<cache, validate, hist, nwrites>>

(***************************************************************************)
(* selectNeededHashes(hashes, cb): it does not wait for the gate           *)
(***************************************************************************)
MaxHashes == 2
SelectHashes == {"A1", "A2"}
SelectInputs == UNION {[1..n -> SelectHashes] : n \in 0..MaxHashes}

\* variant: the suffix starts one hash later
SliceAfter(hashes, min) == SubSeq(hashes, min + 2, Len(hashes))

\* hashes.slice(min)
Slice(hashes, min) == SubSeq(hashes, min + 1, Len(hashes))

\* floor((min + max) / 2), also for max = -1
Mid(min, max) == (min + max + 2) \div 2 - 1

\* the call itself runs up to the first _hashToNumber read, or to its callback
selectNeededHashes(c, hashes) ==
  /\ calls[c].pc = "idle"
  /\ nwrites < MaxWrites
  /\ hist' = [hist EXCEPT ![c] = [pre |-> Snapshot, again |-> "none", w |-> nwrites,
                                  seen |-> Seen(c), hashes |-> hashes]]
  /\ LET cl == [IdleCall EXCEPT !.pc = "selRead", !.op = "select", !.hashes = hashes,
                                !.min = 0, !.mid = 0, !.max = Len(hashes) - 1]
     IN IF cl.max >= cl.min
        THEN calls' = [calls EXCEPT ![c] = cl] /\ out' = [out EXCEPT ![c] = NoOut]
        ELSE /\ calls' = calls
             /\ out' = [out EXCEPT ![c] = [op |-> "select", hash |-> Null, name |-> Null,
                                           err |-> "ok",
                                           result |-> Slice(hashes, cl.min)]]
  /\ UNCHANGED <<db, cache, mem, validate, gate, sem, orphans, nwrites>>

\* the callback of _hashToNumber(hashes[mid])
SelectRead(c) ==
  /\ calls[c].pc = "selRead"
  /\ LET cl == calls[c]
         known == DbHas(db, cache, "h2n", cl.hashes[cl.mid + 1])
         min == IF known THEN cl.mid + 1 ELSE cl.min
         max == IF known THEN cl.max ELSE cl.mid - 1
     IN IF max >= min
        THEN Continue(c, [cl EXCEPT !.min = min, !.max = max, !.mid = Mid(min, max)], mem)
        ELSE Finish(c, "ok", Slice(cl.hashes, min), mem, {})
  /\ UNCHANGED <<db, cache, validate, hist, nwrites>>

(***************************************************************************)
(* getBlock, getHead, getLatestHeader, getLatestBlock: they wait for the   *)
(* gate and not for the semaphore                                          *)
(***************************************************************************)
Reads == {"getBlock", "getHead", "getLatestHeader", "getLatestBlock"}

\* dbManager.getBlock(hash): hashToNumber, the header, the body
GetBlockByHash(d, c, hash) ==
  IF ~DbHas(d, c, "h2n", hash) \/ ~DbHas(d, c, "header", hash) THEN NotFound
  ELSE IF ~DbHas(d, c, "body", hash) /\ Number[hash] # 0 THEN "BodyMissing"
  ELSE hash

\* a read is called and waits for the gate
IssueRead(c, cl) ==
  /\ calls[c].pc = "idle"
  /\ calls' = [calls EXCEPT ![c] = cl]
  /\ out' = [out EXCEPT ![c] = NoOut]
  /\ UNCHANGED <<db, cache, mem, validate, gate, sem, orphans, hist, nwrites>>

getBlock(c, number) ==
  IssueRead(c, [IdleCall EXCEPT !.pc = "gate", !.op = "getBlock", !.blockNumber = number])

getHead(c, name) ==
  IssueRead(c, [IdleCall EXCEPT !.pc = "gate", !.op = "getHead", !.name = name])

getLatestHeader(c) ==
  IssueRead(c, [IdleCall EXCEPT !.pc = "gate", !.op = "getLatestHeader"])

getLatestBlock(c) ==
  IssueRead(c, [IdleCall EXCEPT !.pc = "gate", !.op = "getLatestBlock"])

\* the hash that a read takes from the fields when _initLock.await fires
ReadTag(cl, m) ==
  IF cl.op = "getLatestHeader" THEN m.headHeader
  ELSE IF cl.op = "getLatestBlock" THEN m.headBlock
  ELSE IF cl.op = "getHead"
       THEN IF cl.name \in DOMAIN m.heads THEN m.heads[cl.name] ELSE m.headBlock
  ELSE Null

\* _initLock.await fires: the read takes its tag and dbManager.getBlock starts
ReadStart(c) ==
  /\ calls[c].pc = "gate"
  /\ calls[c].op \in Reads
  /\ gate = "go"
  /\ LET cl == calls[c]
     IN IF cl.op = "getHead" /\ ReadTag(cl, mem) = Null
        THEN Finish(c, "NoHead", <<>>, mem, {})
        ELSE Continue(c, [cl EXCEPT !.pc = "rdBlock", !.hash = ReadTag(cl, mem)], mem)
  /\ UNCHANGED <<db, cache, validate, hist, nwrites>>

\* what dbManager.getBlock answers for the tag of a read
ReadAnswer(cl, d, c) ==
  IF cl.op = "getBlock" THEN GetBlockByNumber(d, c, cl.blockNumber)
  ELSE GetBlockByHash(d, c, cl.hash)

\* the callback of dbManager.getBlock
ReadBlock(c) ==
  /\ calls[c].pc = "rdBlock"
  /\ LET b == ReadAnswer(calls[c], db, cache)
     IN IF b \in {NotFound, "BodyMissing"}
        THEN Finish(c, b, <<>>, mem, {})
        ELSE Finish(c, "ok", <<b>>, mem, {})
  /\ UNCHANGED <<db, cache, validate, hist, nwrites>>

(***************************************************************************)
(* _init                                                                   *)
(***************************************************************************)
\* the callback of _numberToHash(0): getHeads, or the genesis put
InitRead ==
  /\ calls[InitProc].pc = "initRead"
  /\ IF DbHas(db, cache, "n2h", 0)
     THEN Continue(InitProc, [calls[InitProc] EXCEPT !.pc = "initLoad"],
                   [mem EXCEPT !.genesis = DbGet(db, cache, "n2h", 0)])
     ELSE Continue(InitProc, [calls[InitProc] EXCEPT !.pc = "start"], mem)
  /\ UNCHANGED <<db, cache, validate, hist, nwrites>>

\* getHeads: the three head keys, each falling back when absent
InitLoad ==
  /\ calls[InitProc].pc = "initLoad"
  /\ LET meta == db.meta
         g == mem.genesis
     IN Finish(InitProc, "ok", <<>>,
               [mem EXCEPT !.heads = IF "heads" \in DOMAIN meta THEN meta["heads"] ELSE EmptyMap,
                           !.headHeader = IF "LastHeader" \in DOMAIN meta
                                          THEN meta["LastHeader"] ELSE g,
                           !.headBlock = IF "LastBlock" \in DOMAIN meta
                                         THEN meta["LastBlock"] ELSE g],
               {})
  /\ UNCHANGED <<db, cache, validate, hist, nwrites>>

(***************************************************************************)
(* Specifications.                                                         *)
(***************************************************************************)
PutPipeline(c) ==
  \/ PutStart(c)
  \/ \E which \in {"header", "block"} : TdRead(c, which)
  \/ BlockTd(c)
  \/ DeleteStale(c)
  \/ RebuildCanonicalLook(c)
  \/ RebuildCanonicalParent(c)
  \/ Commit(c)

Pipeline(c) ==
  \/ PutPipeline(c)
  \/ DelHeader(c)
  \/ DelCanonical(c)
  \/ DelChildNext(c)
  \/ IteratorStart(c)
  \/ IteratorNumber(c)
  \/ IteratorBlock(c)
  \/ \E ok \in BOOLEAN : IteratorUser(c, ok)
  \/ IteratorSave(c)
  \/ SelectRead(c)

\* every callback that is pending
Background ==
  \/ InitRead
  \/ InitLoad
  \/ \E c \in Procs : Pipeline(c)
  \/ \E c \in Callers : Enter(c)
  \/ \E o \in orphans : OrphanRead(o)

\* one client that waits for each callback before its next call
Next ==
  \/ \E h \in Hashes : putBlock(1, h)
  \/ \E h \in Hashes : putHeader(1, h)
  \/ \E h \in Hashes : delBlock(1, h)
  \/ \E n \in IterNames : iterator(1, n)
  \/ \E hs \in SelectInputs : selectNeededHashes(1, hs)
  \/ Background

Spec == Init /\ [][Next]_vars

\* one client that only puts
NextPut ==
  \/ \E h \in Hashes : putBlock(1, h)
  \/ \E h \in Hashes : putHeader(1, h)
  \/ InitRead
  \/ InitLoad
  \/ \E c \in Procs : PutPipeline(c)
  \/ \E c \in Callers : Enter(c)

SpecPut == Init /\ [][NextPut]_vars

\* several clients that each call putBlock once when the gate is open, without
\* waiting for each other
putBlockOnce(c, hash) ==
  /\ gate = "go"
  /\ out[c].op = "none"
  /\ putBlock(c, hash)

ConcHashes == {"A1", "A2", "B1", "B3"}

NextConc ==
  \/ \E c \in Callers, h \in ConcHashes : putBlockOnce(c, h)
  \/ InitRead
  \/ InitLoad
  \/ \E c \in Procs : PutPipeline(c)
  \/ \E c \in Callers : Enter(c)

SpecConc == Init /\ [][NextConc]_vars

\* one client that calls putBlock on a store whose batches can fail; every
\* callback that is pending runs in the end
Answer ==
  \/ InitRead
  \/ InitLoad
  \/ \E c \in Procs : PutPipeline(c)
  \/ \E c \in Procs : CommitFail(c)
  \/ \E c \in Callers : Enter(c)

NextFault ==
  \/ \E h \in Hashes : putBlock(1, h)
  \/ Answer

SpecFault == Init /\ [][NextFault]_vars /\ WF_vars(Answer)

\* clients that put and delete, also with an argument that is no block
LockItems == {"A1", Malformed}

NextLock ==
  \/ \E c \in Callers, h \in LockItems : putBlock(c, h)
  \/ \E c \in Callers, h \in LockItems : delBlock(c, h)
  \/ InitRead
  \/ InitLoad
  \/ \E c \in Procs : PutPipeline(c)
  \/ \E c \in Callers : DelHeader(c)
  \/ \E c \in Callers : DelCanonical(c)
  \/ \E c \in Callers : DelChildNext(c)
  \/ \E c \in Callers : Enter(c)
  \/ \E c \in Callers : Throw(c)

SpecLock == Init /\ [][NextLock]_vars

\* one client that calls selectNeededHashes once, with an array of up to
\* MaxSelect hashes, on a store that only initialisation writes; every read
\* answers in the end
MaxSelect == 4
SearchHashes == {"A1", "A3", "B3", "C2"}
SearchInputs == UNION {[1..n -> SearchHashes] : n \in 0..MaxSelect}

Probe == \E c \in Callers : SelectRead(c)

selectOnce(c, hashes) ==
  /\ out[c].op = "none"
  /\ selectNeededHashes(c, hashes)

NextSelect ==
  \/ \E hs \in SearchInputs : selectOnce(1, hs)
  \/ Probe
  \/ InitRead
  \/ InitLoad
  \/ PutStart(InitProc)
  \/ DeleteStale(InitProc)
  \/ Commit(InitProc)

SpecSelect == Init /\ [][NextSelect]_vars /\ WF_vars(Probe)

\* one client that puts and deletes and waits for each callback, and one that
\* reads meanwhile
ReadItems == {"A1", "A2", "B1"}
ReadNumbers == 1..2
Writer == 1
Reader == 2

NextRead ==
  \/ \E h \in ReadItems : putBlock(Writer, h)
  \/ \E h \in ReadItems : putHeader(Writer, h)
  \/ \E h \in ReadItems : delBlock(Writer, h)
  \/ \E n \in ReadNumbers : getBlock(Reader, n)
  \/ \E n \in IterNames : getHead(Reader, n)
  \/ getLatestHeader(Reader)
  \/ getLatestBlock(Reader)
  \/ ReadStart(Reader)
  \/ ReadBlock(Reader)
  \/ InitRead
  \/ InitLoad
  \/ \E c \in Procs : PutPipeline(c)
  \/ DelHeader(Writer)
  \/ DelCanonical(Writer)
  \/ DelChildNext(Writer)
  \/ Enter(Writer)

SpecRead == Init /\ [][NextRead]_vars

\* one client that puts and deletes blocks other than genesis
NonGenesis == Hashes \ {GenesisHash}

NextMutate ==
  \/ \E h \in NonGenesis : putBlock(1, h)
  \/ \E h \in NonGenesis : putHeader(1, h)
  \/ \E h \in NonGenesis : delBlock(1, h)
  \/ InitRead
  \/ InitLoad
  \/ \E c \in Procs : PutPipeline(c)
  \/ \E c \in Callers : DelHeader(c)
  \/ \E c \in Callers : DelCanonical(c)
  \/ \E c \in Callers : DelChildNext(c)
  \/ \E c \in Callers : Enter(c)
  \/ \E o \in orphans : OrphanRead(o)

SpecMutate == Init /\ [][NextMutate]_vars

\* one client that puts and deletes, also with an argument that is no block;
\* every callback that is pending runs in the end
LiveItems == {"A1", "A3", "B1", "B3", Malformed}

Step(c) ==
  \/ PutPipeline(c)
  \/ DelHeader(c)
  \/ DelCanonical(c)
  \/ DelChildNext(c)
  \/ Enter(c)
  \/ Throw(c)

Orphaned == \E o \in orphans : OrphanRead(o)

NextLive ==
  \/ \E h \in LiveItems : putBlock(1, h)
  \/ \E h \in LiveItems : putHeader(1, h)
  \/ \E h \in LiveItems : delBlock(1, h)
  \/ InitRead
  \/ InitLoad
  \/ \E c \in Procs : Step(c)
  \/ Orphaned

SpecLive ==
  /\ Init /\ [][NextLive]_vars
  /\ WF_vars(InitRead \/ InitLoad)
  /\ \A c \in Procs : WF_vars(Step(c))
  /\ WF_vars(Orphaned)

(***************************************************************************)
(* Properties.                                                             *)
(***************************************************************************)
\* the total difficulty of a block: the sum of the difficulties down to genesis
RECURSIVE TotalDifficulty(_)
TotalDifficulty(hash) ==
  IF Number[hash] = 0 THEN Difficulty[hash]
  ELSE Difficulty[hash] + TotalDifficulty(Parent[hash])

\* a block and its ancestors down to genesis
RECURSIVE Chain(_)
Chain(hash) == IF Number[hash] = 0 THEN {hash} ELSE {hash} \cup Chain(Parent[hash])

\* what a read of the key answers in state s, and whether it answers at all
Has(s, fam, k) == DbHas(s.db, s.cache, fam, k)
Get(s, fam, k) == DbGet(s.db, s.cache, fam, k)

IsCanonical(s, hash) == Has(s, "n2h", Number[hash]) /\ Get(s, "n2h", Number[hash]) = hash

\* the state a caller can observe: the persisted keys and the three head fields
Public(s) ==
  [db |-> s.db, heads |-> s.mem.heads, headHeader |-> s.mem.headHeader,
   headBlock |-> s.mem.headBlock]

Puts == {"putBlock", "putHeader"}

Errors ==
  {"ok", "NotFound", "ParentMissing", "BrokenChain", "ChainMismatch", "AlreadyHaveGenesis",
   "InvalidBlock", "InvalidPoW", "DbError"}

\* caller c's call has called back, and no other call of c has been issued since
Returned(c, ops, errs) ==
  calls[c].pc = "idle" /\ out[c].op \in ops /\ out[c].err \in errs

\* C1's case: before the put the chain of tip was canonical and persisted, the
\* item's ancestors were stored, and the item is strictly heavier than tip
ReorgCase(c) ==
  LET pre == hist[c].pre
      hash == out[c].hash
      tip == pre.mem.headHeader
  IN /\ Returned(c, Puts, {"ok"})
     /\ tip \in Hashes
     /\ \A a \in Chain(tip) :
          /\ IsCanonical(pre, a)
          /\ Number[a] \in DOMAIN pre.db.n2h /\ pre.db.n2h[Number[a]] = a
          /\ Has(pre, "header", a)
     /\ \A a \in Chain(hash) \ {hash} : Has(pre, "header", a) /\ Has(pre, "td", a)
     /\ TotalDifficulty(hash) > TotalDifficulty(tip)

\* C1 (reorg correctness): when a chain was canonical and a successful put
\* completes a stored chain B that is strictly heavier, every number of B's
\* chain maps to B's block at that number, in the store and for a read, and
\* headHeader is B's tip.
C1_ReorgCorrect ==
  \A c \in Callers :
    ReorgCase(c) =>
      /\ mem.headHeader = out[c].hash
      /\ \A a \in Chain(out[c].hash) :
           /\ IsCanonical(Snapshot, a)
           /\ Number[a] \in DOMAIN db.n2h /\ db.n2h[Number[a]] = a

\* C1 is reached with a fork above genesis that replaces three canonical blocks
C1_Witness ==
  \E c \in Callers :
    /\ ReorgCase(c)
    /\ out[c].hash = "B3"
    /\ hist[c].pre.db.n2h[1] = "A1"
    /\ hist[c].pre.db.n2h[3] = "A3"

\* no call is in flight and initialisation is over
Idle == gate = "go" /\ \A c \in Callers : calls[c].pc = "idle"

InPipeline(c) == calls[c].op \in Mutators /\ calls[c].pc \notin {"idle", "gate", "queued"}

\* C3 (mutual exclusion of mutations): a call whose pipeline is running holds
\* the write token, so at most one runs; and no read of a pipeline is still
\* pending once that pipeline has called back and released the token.
C3_MutualExclusion ==
  /\ \A c \in Callers : InPipeline(c) => sem.holder = c
  /\ orphans = {}

\* C3's other half is reached: a pipeline runs under the token while a deletion
\* walk of an earlier pipeline is still pending
C3_Witness ==
  \E c \in Callers, o \in orphans : InPipeline(c) /\ sem.holder = c /\ o.kind = "ds"

\* the orders in which the callers' calls can run one after another
Orders == {f \in [1..NumCallers -> Callers] : \A i, j \in 1..NumCallers : i # j => f[i] # f[j]}

RECURSIVE SerialPuts(_, _, _)
SerialPuts(s, order, i) ==
  IF i > NumCallers THEN s
  ELSE SerialPuts(PutBlockOrHeader(s, out[order[i]].hash, FALSE, FALSE, validate), order, i + 1)

\* C4's case: every caller's putBlock was issued after initialisation and before
\* any of them had started to write, and all have called back
ConcurrentPuts ==
  \A c \in Callers :
    /\ Returned(c, {"putBlock"}, Errors)
    /\ hist[c].pre.gate = "go"
    /\ hist[c].w = 0

\* C4 (serialisation): after concurrent putBlock calls the persisted keys and the
\* head fields are those of running the same calls one after another in some order.
C4_Serialisable ==
  ConcurrentPuts =>
    \E order \in Orders :
      Public(Snapshot) =
        Public(SerialPuts([db |-> hist[1].pre.db, cache |-> hist[1].pre.cache,
                           mem |-> hist[1].pre.mem, err |-> "ok"], order, 1))

\* C4 is reached with two calls that both win in one order and not in the other
C4_Witness ==
  /\ ConcurrentPuts
  /\ {out[c].hash : c \in Callers} = {"A1", "B1"}
  /\ mem.headHeader = "A1"
  /\ db.n2h[1] = "A1"

\* the blocks that were canonical at hash's number and above
CanonicalFrom(s, hash) ==
  {x \in Hashes : Number[x] >= Number[hash] /\ IsCanonical(s, x)}

\* no key of the block answers, in the caches or in the store
Absent(hash) ==
  /\ \A fam \in {"header", "body", "td", "h2n"} :
       ~Has(Snapshot, fam, hash) /\ hash \notin DOMAIN db[fam]
  /\ ~IsCanonical(Snapshot, hash)
  /\ ~(Number[hash] \in DOMAIN db.n2h /\ db.n2h[Number[hash]] = hash)

\* C5's case: a delBlock of a block that was canonical has called back without error
CascadeCase(c) ==
  /\ Returned(c, {"delBlock"}, {"ok"})
  /\ IsCanonical(hist[c].pre, out[c].hash)

\* C5 (delete cascade): after a successful delBlock of a canonical block, the
\* block and every block that was canonical above it have no header, body, td,
\* hashToNumber or numberToHash entry, and headHeader is the block's parent.
C5_DeleteCascade ==
  \A c \in Callers :
    CascadeCase(c) =>
      /\ \A x \in CanonicalFrom(hist[c].pre, out[c].hash) : Absent(x)
      /\ mem.headHeader = Parent[out[c].hash]

\* C5 is reached with a delete in the middle of the canonical chain
C5_Witness ==
  \E c \in Callers :
    /\ CascadeCase(c)
    /\ out[c].hash = "A2"
    /\ CanonicalFrom(hist[c].pre, "A2") = {"A2", "A3", "A4"}

\* C6 (idempotent re-put): when a put has called back and the caller's call just
\* before it was the same put, the persisted keys and the head fields are as
\* they were when the second put was issued.
C6_IdempotentReput ==
  \A c \in Callers :
    (Returned(c, Puts, Errors) /\ hist[c].again # "none")
    => Public(Snapshot) = Public(hist[c].pre)

\* C6's case is reached: the same block put twice, both times with success
C6_Witness ==
  \E c \in Callers :
    /\ Returned(c, {"putBlock"}, {"ok"})
    /\ hist[c].again = "ok"
    /\ out[c].hash = "A1"

\* C7 (init gate): while the gate is closed no public operation has gone past
\* it, read anything or called back.
C7_InitGate ==
  gate = "stop" => \A c \in Callers : calls[c].pc \in {"idle", "gate"} /\ out[c].op = "none"

\* C8 (init failure is reported): once initialisation has failed, an operation
\* that waits at the gate is called back with InitFailed.
C8_InitFailureReported ==
  \A c \in Callers :
    (calls[InitProc].pc = "threw" /\ calls[c].pc = "gate") ~> (out[c].err = "InitFailed")

Rejections ==
  {"ChainMismatch", "AlreadyHaveGenesis", "InvalidBlock", "InvalidPoW", "ParentMissing"}

\* a put that has not reached rebuildInfo
BeforeRebuild(cl) == cl.op \in Puts /\ cl.pc \in {"start", "curTd", "blockTd"}

\* C9 (rejected puts leave state unchanged): no step of a put up to and
\* including its rejection changes the store, the caches or the fields, and the
\* put has prepared no batch.
C9_RejectedUnchanged ==
  [][\A c \in Callers :
       (BeforeRebuild(calls[c]) /\ calls'[c] # calls[c]
          /\ (BeforeRebuild(calls'[c]) \/ out'[c].err \in Rejections))
       => (db' = db /\ cache' = cache /\ mem' = mem /\ calls[c].ops = <<>>)]_vars

\* C9 is reached: a put was rejected for a missing parent after its td reads
C9_Witness ==
  \E c \in Callers : Returned(c, Puts, {"ParentMissing"}) /\ out[c].hash = "B3"

\* what iterator run c has handed to onBlock so far
Yielded(c) ==
  IF calls[c].op = "iterator" THEN calls[c].result
  ELSE IF out[c].op = "iterator" THEN out[c].result ELSE <<>>

\* C10 (iterator reorg flag): a yielded block comes with reorg = TRUE exactly
\* when a block was yielded before it in the run and that block is not its parent.
C10_ReorgFlag ==
  \A c \in Callers :
    \A i \in 1..Len(Yielded(c)) :
      Yielded(c)[i].reorg =
        (i > 1 /\ Yielded(c)[i - 1].block # Parent[Yielded(c)[i].block])

\* the name of caller c's iterator run, in flight or just completed
RunName(c) == IF calls[c].op = "iterator" THEN calls[c].name ELSE out[c].name

\* C11's case: run c has yielded a first block at a number where an earlier run
\* of the same name, which had gone on to the tip, consumed another block that
\* is still stored: the chain it consumed has been replaced from there on
ReplacedUnder(c) ==
  /\ Yielded(c) # <<>>
  /\ \E x \in hist[c].seen[RunName(c)] :
       /\ Number[x] = Number[Yielded(c)[1].block]
       /\ x # Yielded(c)[1].block
       /\ Has(Snapshot, "header", x)

\* C11 (iterator catches a reorg across runs): when the chain an iterator had
\* consumed up to its tip was replaced by a heavier one, the first block that
\* its next run yields comes with reorg = TRUE.
C11_ReorgAcrossRuns ==
  \A c \in Callers : ReplacedUnder(c) => Yielded(c)[1].reorg

\* C12 (token release on every exit path): the write token is held only by a
\* call whose pipeline is running; once a pipeline has ended, by its callback
\* or by an exception, the token is free or has gone to the next call.
C12_TokenReleased ==
  \A c \in Callers : sem.holder = c => InPipeline(c)

\* every number from 1 up to headHeader's is assigned, to a stored header whose
\* parent is assigned to the number below, and the top one is headHeader
Linked(s) ==
  /\ s.mem.headHeader \in Hashes
  /\ IsCanonical(s, s.mem.headHeader)
  /\ \A n \in 1..Number[s.mem.headHeader] :
       /\ Has(s, "n2h", n)
       /\ Has(s, "header", Get(s, "n2h", n))
       /\ Has(s, "n2h", n - 1)
       /\ Parent[Get(s, "n2h", n)] = Get(s, "n2h", n - 1)

\* C13 (canonical chain linkage): after initialisation and whenever the calls
\* so far have completed, the numbers up to headHeader's form a chain of
\* stored headers that ends in headHeader.
C13_CanonicalLinked == Idle => Linked(Snapshot)

\* a put of caller c, issued after initialisation, has called back without error
PutDone(c) == Returned(c, Puts, {"ok"}) /\ hist[c].pre.gate = "go"

\* the iterator heads that designate a block which was canonical when the put
\* was issued and is not canonical now
LeftBehind(c) ==
  {n \in DOMAIN mem.heads :
     /\ mem.heads[n] \in Hashes
     /\ IsCanonical(hist[c].pre, mem.heads[n])
     /\ ~IsCanonical(Snapshot, mem.heads[n])}

\* C14 (iterator heads follow reorgs): when a put has completed with success, no
\* iterator head designates a block that this put has made non-canonical.
C14_HeadsFollowReorg ==
  \A c \in Callers : PutDone(c) => LeftBehind(c) = {}

\* what the store tells of how an item was put: a block with transactions that
\* was put as a full block has a body, one that was only put as a header has none
StoredAsBlock(s, hash) ==
  Number[hash] = 0 \/ (Has(s, "header", hash) /\ (HasTx[hash] => Has(s, "body", hash)))

\* C15 (headBlock designates a full block): when the calls so far have completed,
\* headBlock and all its ancestors are stored as full blocks, and its total
\* difficulty is at most headHeader's.
C15_HeadBlockFull ==
  Idle =>
    /\ mem.headBlock \in Hashes
    /\ \A a \in Chain(mem.headBlock) : StoredAsBlock(Snapshot, a)
    /\ Has(Snapshot, "td", mem.headBlock) /\ Has(Snapshot, "td", mem.headHeader)
    /\ Get(Snapshot, "td", mem.headBlock) <= Get(Snapshot, "td", mem.headHeader)

\* C16 (iterator persists under the write token): while the batch that an
\* iterator run writes at its end is in flight, the run holds the write token.
C16_IteratorSaveLocked ==
  \A c \in Callers : calls[c].pc = "itSave" => sem.holder = c

\* C17's case: a put of a non-genesis item has completed with success, and when
\* it was issued the item's total difficulty was at most that of headHeader
NotHeavier(c) ==
  LET pre == hist[c].pre
      hash == out[c].hash
  IN /\ PutDone(c)
     /\ Number[hash] # 0
     /\ pre.mem.headHeader \in Hashes
     /\ Has(pre, "td", pre.mem.headHeader)
     /\ Has(pre, "td", Parent[hash])
     /\ Difficulty[hash] + Get(pre, "td", Parent[hash]) <= Get(pre, "td", pre.mem.headHeader)

\* C17 (strict tie-breaking as a frame condition): a successful put of an item
\* that is not heavier than headHeader leaves headHeader, the iterator heads
\* and every numberToHash entry as they were, in the store and in the caches,
\* and changes no td, header, body or hashToNumber entry but the item's own,
\* which are present afterwards.
C17_TieKeepsCanonical ==
  \A c \in Callers :
    NotHeavier(c) =>
      LET pre == hist[c].pre
          hash == out[c].hash
      IN /\ mem.headHeader = pre.mem.headHeader
         /\ mem.heads = pre.mem.heads
         /\ db.n2h = pre.db.n2h
         /\ cache.n2h = pre.cache.n2h
         /\ \A fam \in {"td", "header", "body", "h2n"} :
              /\ MapDel(db[fam], hash) = MapDel(pre.db[fam], hash)
              /\ MapDel(cache[fam], hash) = MapDel(pre.cache[fam], hash)
         /\ \A fam \in {"td", "header", "h2n"} : hash \in DOMAIN db[fam]

\* C17 is reached with a tie: C2 is put when headHeader is A3, of the same total
\* difficulty, and stays non-canonical
C17_Witness ==
  \E c \in Callers :
    /\ NotHeavier(c)
    /\ out[c].hash = "C2"
    /\ hist[c].pre.mem.headHeader = "A3"
    /\ ~IsCanonical(Snapshot, "C2")

\* the nearest ancestor of hash that was canonical in state s: where the
\* rebuild walk of a put of hash stops (genesis when none is)
RECURSIVE ForkPoint(_, _)
ForkPoint(s, hash) ==
  IF Number[hash] = 0 \/ IsCanonical(s, Parent[hash]) THEN Parent[hash]
  ELSE ForkPoint(s, Parent[hash])

\* C18's case: a put has completed with success; when it was issued the item was
\* heavier than headHeader and not canonical, and its nearest canonical ancestor
\* was above genesis
StopsAtAncestor(c) ==
  LET pre == hist[c].pre
      hash == out[c].hash
  IN /\ PutDone(c)
     /\ Number[hash] # 0
     /\ pre.mem.headHeader \in Hashes
     /\ Has(pre, "td", pre.mem.headHeader)
     /\ Has(pre, "td", Parent[hash])
     /\ Difficulty[hash] + Get(pre, "td", Parent[hash]) > Get(pre, "td", pre.mem.headHeader)
     /\ ~IsCanonical(pre, hash)
     /\ Number[ForkPoint(pre, hash)] > 0

\* the iterator heads that the walk flags: those that designated a block that
\* was canonical at a number between the ancestor's and the item's
Flagged(c) ==
  LET pre == hist[c].pre
      hash == out[c].hash
  IN {n \in DOMAIN pre.mem.heads :
        /\ pre.mem.heads[n] \in Hashes
        /\ IsCanonical(pre, pre.mem.heads[n])
        /\ Number[pre.mem.heads[n]] > Number[ForkPoint(pre, hash)]
        /\ Number[pre.mem.heads[n]] <= Number[hash]}

\* headBlock is flagged likewise, in a putHeader: a putBlock has moved it to the
\* item before the walk starts
FlaggedBlock(c) ==
  LET pre == hist[c].pre
      hash == out[c].hash
  IN /\ out[c].op = "putHeader"
     /\ pre.mem.headBlock \in Hashes
     /\ IsCanonical(pre, pre.mem.headBlock)
     /\ Number[pre.mem.headBlock] > Number[ForkPoint(pre, hash)]
     /\ Number[pre.mem.headBlock] <= Number[hash]

SideDelete(c) ==
  /\ Returned(c, {"delBlock"}, {"ok"})
  /\ hist[c].pre.gate = "go"
  /\ ~IsCanonical(hist[c].pre, out[c].hash)

Known(hash) == Has(Snapshot, "h2n", hash)

PrefixKnown(hashes) ==
  \A i, j \in 1..Len(hashes) : (i < j /\ Known(hashes[j])) => Known(hashes[i])

NumKnown(hashes) == Cardinality({i \in 1..Len(hashes) : Known(hashes[i])})

\* what C20 says of one call: it probes inside the array, and for an array whose
\* known hashes form a prefix it returns the hashes after that prefix
SearchRight(c) ==
  /\ calls[c].pc = "selRead" =>
       calls[c].mid >= 0 /\ calls[c].mid < Len(calls[c].hashes)
  /\ (Returned(c, {"select"}, Errors) /\ PrefixKnown(hist[c].hashes)) =>
       /\ out[c].err = "ok"
       /\ out[c].result = SubSeq(hist[c].hashes, NumKnown(hist[c].hashes) + 1,
                                 Len(hist[c].hashes))

\* C20 (selectNeededHashes boundary search): every call probes only indices of
\* its array and terminates, and for an array whose known hashes form a prefix
\* it returns exactly the suffix that starts at the first unknown hash.
C20_BoundarySearch ==
  /\ [](\A c \in Callers : SearchRight(c))
  /\ \A c \in Callers : (calls[c].pc = "selRead") ~> (calls[c].pc = "idle")

\* C20 is reached: four hashes of which the first two are known
C20_Witness ==
  \E c \in Callers :
    /\ Returned(c, {"select"}, {"ok"})
    /\ hist[c].hashes = <<"A1", "A3", "B3", "C2">>
    /\ PrefixKnown(hist[c].hashes)
    /\ out[c].result = <<"B3", "C2">>

\* a put of caller c has called back with an error that arises after rebuildInfo
\* has started to fill the batch
FailedAfterPrepare(c) == Returned(c, Puts, {"BrokenChain", "DbError"})

\* C21 (a failed put after batch preparation is rolled back): when a put has
\* failed with a batch error or with BrokenChain, the caches and headHeader,
\* headBlock and heads are as they were when the put was issued.
C21_FailedPutRolledBack ==
  \A c \in Callers :
    FailedAfterPrepare(c) =>
      /\ cache = hist[c].pre.cache
      /\ mem.headHeader = hist[c].pre.mem.headHeader
      /\ mem.headBlock = hist[c].pre.mem.headBlock
      /\ mem.heads = hist[c].pre.mem.heads

\* what a read's callback gets when dbManager.getBlock answers b
ReadOutcome(b) ==
  IF b \in {NotFound, "BodyMissing"} THEN [err |-> b, result |-> <<>>]
  ELSE [err |-> "ok", result |-> <<b>>]

\* a mutation of caller w, issued after initialisation, is in flight: its
\* pipeline runs and its batch is not in the store
InFlight(w) == InPipeline(w) /\ hist[w].pre.gate = "go"

\* a step of read r that takes its tag from the fields
TakesTag(r) == calls[r].op \in Reads /\ calls[r].pc = "gate" /\ calls'[r].pc = "rdBlock"

\* a step of read r that hands dbManager's answer to the callback
Answers(r) == calls[r].op \in Reads /\ calls[r].pc = "rdBlock" /\ calls'[r].pc = "idle"

\* C22 (readers see pre-commit state): a read that takes its head or gets its
\* answer while a mutation is in flight takes the head, and gets the answer,
\* of the state from before that mutation; a read that gets its answer while
\* none is in flight gets what the store holds.
C22_ReadersPreCommit ==
  [][\A r \in Callers :
       /\ \A w \in Callers :
            InFlight(w) =>
              /\ TakesTag(r) => calls'[r].hash = ReadTag(calls[r], hist[w].pre.mem)
              /\ Answers(r) =>
                   LET o == ReadOutcome(ReadAnswer(calls[r], hist[w].pre.db, hist[w].pre.cache))
                   IN out'[r].err = o.err /\ out'[r].result = o.result
       /\ (Answers(r) /\ \A w \in Callers : ~InPipeline(w)) =>
            LET o == ReadOutcome(ReadAnswer(calls[r], db, EmptyCache))
            IN out'[r].err = o.err /\ out'[r].result = o.result]_vars

\* C22's case is reached: getLatestHeader has taken its head while a put that
\* wins was waiting for its batch
C22_Witness ==
  \E r, w \in Callers :
    /\ InFlight(w)
    /\ calls[w].op = "putBlock"
    /\ calls[w].pc = "commit"
    /\ mem.headHeader = calls[w].hash
    /\ calls[r].op = "getLatestHeader"
    /\ calls[r].pc = "rdBlock"

\* a mutation or an iterator run of caller c, issued after initialisation, has
\* called back without error
Completed(c) ==
  Returned(c, Mutators \cup {"iterator"}, {"ok"}) /\ hist[c].pre.gate = "go"

\* the values under the heads, LastHeader and LastBlock keys are those of the fields
HeadsPersisted ==
  /\ {"heads", "LastHeader", "LastBlock"} \subseteq DOMAIN db.meta
  /\ db.meta["heads"] = mem.heads
  /\ db.meta["LastHeader"] = mem.headHeader
  /\ db.meta["LastBlock"] = mem.headBlock

\* a new instance on the same store comes up with the same three values
HeadsRestored ==
  LET s == Opened(db, validate)
  IN /\ s.mem.heads = mem.heads
     /\ s.mem.headHeader = mem.headHeader
     /\ s.mem.headBlock = mem.headBlock

\* C23 (persisted heads match memory): when a putBlock, putHeader, delBlock or
\* iterator run has completed with success, the persisted head keys equal
\* headHeader, headBlock and heads, and a new instance restores them.
C23_HeadsPersisted ==
  \A c \in Callers : Completed(c) => HeadsPersisted /\ HeadsRestored

\* the header, hashToNumber and td entries of the block answer a read
Readable(s, hash) ==
  Has(s, "header", hash) /\ Has(s, "h2n", hash) /\ Has(s, "td", hash)

\* C24 (heads never dangle): whenever the calls so far have completed,
\* headHeader and headBlock designate blocks whose header, hashToNumber and td
\* entries are present, and no put is turned down because the current-TD read
\* of a head has failed.
C24_HeadsNeverDangle ==
  /\ Idle => Readable(Snapshot, mem.headHeader) /\ Readable(Snapshot, mem.headBlock)
  /\ \A c \in Callers : ~Returned(c, Puts, {NotFound})

\* the iterator head of the name designates the block
HeadAt(name, block) == name \in DOMAIN mem.heads /\ mem.heads[name] = block

\* C25 (iterator head advances only on success): while onBlock runs for a block
\* the iterator head does not designate that block yet, and when onBlock has
\* failed for a block the head does not designate it, so that a later run
\* yields the block again.
C25_HeadAfterSuccess ==
  \A c \in Callers :
    /\ (calls[c].op = "iterator" /\ calls[c].pc = "itUser") =>
         ~HeadAt(calls[c].name, calls[c].block)
    /\ Returned(c, {"iterator"}, {"UserError"}) =>
         ~HeadAt(out[c].name, out[c].result[Len(out[c].result)].block)

\* a mutation of caller c waits at the open gate
Called(c) == gate = "go" /\ calls[c].op \in Mutators /\ calls[c].pc = "gate"

\* a callback of a mutation of caller c has run
CalledBack(c) == Returned(c, Mutators, Errors)

\* C26 (every mutation completes): once initialisation has succeeded every
\* putBlock, putHeader and delBlock that is called is called back, a callback
\* runs only for a call that is in flight, a call that holds the write token
\* gives it up, and every walk comes to an end, also one that outlives its call.
C26_MutationsComplete ==
  /\ \A c \in Callers : Called(c) ~> CalledBack(c)
  /\ \A c \in Callers : (sem.holder = c) ~> (sem.holder # c)
  /\ (orphans # {}) ~> (orphans = {})
  /\ [][\A c \in Callers :
          (out'[c] # out[c] /\ out'[c].op \in Mutators /\ out'[c].err \in Errors)
          => InPipeline(c)]_vars

=============================================================================
